---- MODULE Spec2Model ----
(***************************************************************************)
(* Load lifecycle and bid resolution of the SwiftLoad board (src/app.py).  *)
(*                                                                         *)
(* The store is one SQLite file.  Every request handler opens a connection *)
(* of its own (get_db), so the handlers of concurrent requests interleave  *)
(* statement by statement.  Python's sqlite3 runs a SELECT outside any     *)
(* transaction and opens one implicitly before the first INSERT or UPDATE; *)
(* that statement takes the file's single write lock, which is held until  *)
(* db.commit(), or until close_db closes the connection of a request whose *)
(* statement failed.  Rows written inside the transaction are visible to   *)
(* the writing connection only, and to everybody at the commit.            *)
(*                                                                         *)
(* Names of the specification (spec.md) and of the code:                   *)
(*   poster = shipper, bidder = trucker, assignedBidder = loads.trucker_id *)
(*   submitBid = place_bid, acceptBid = accept_bid, rejectBid = reject_bid *)
(*   transitionLoad = update_status, listBids = the query of view_load     *)
(***************************************************************************)
EXTENDS Integers, Sequences, FiniteSets, TLC

VARIABLES
    loads,  \* table loads, committed rows: id -> [shipper_id, status, trucker_id]
    bids,   \* table bids, committed rows; the index is the AUTOINCREMENT id
    tx,     \* the open write transaction: NoTx, or its owner and its view of the tables
    pc,     \* per request handler: the statement it is about to execute
    req,    \* per request handler: the request it serves and the row it fetched
    res     \* per request handler: the response of the finished request

vars == <<loads, bids, tx, pc, req, res>>

----------------------------------------------------------------------------
\* Bounds of the model

\* rows the bids table may hold when requests are served one at a time
MaxBids == 3

\* rows the bids table may hold when two requests are served concurrently
MaxConcBids == 2

\* rows the loads table may hold
MaxLoads == 3

----------------------------------------------------------------------------
\* The store's schema and the rows that exist before the engine is called

\* SQL NULL in loads.trucker_id; row ids start at 1
NULL == 0

LoadStatuses == {"open", "assigned", "in_transit", "delivered", "cancelled"}

BidStatuses == {"pending", "accepted", "rejected"}

\* users.id -> users.role; user 1 is the admin seeded by init_db
users == (1 :> "admin") @@ (2 :> "shipper") @@ (3 :> "shipper") @@
         (4 :> "trucker") @@ (5 :> "trucker")

\* loads posted by new_load: id -> the shipper who posted it
posted == (1 :> 2) @@ (2 :> 3)

\* a row as new_load inserts it: status defaults to 'open', trucker_id to NULL
NewLoad(shipper_id) ==
    [shipper_id |-> shipper_id, status |-> "open", trucker_id |-> NULL]

\* a row as place_bid inserts it: status defaults to 'pending'; amount is the
\* float the handler bound
NewBid(load_id, trucker_id, amount) ==
    [load_id |-> load_id, trucker_id |-> trucker_id, amount |-> amount,
     status |-> "pending"]

NoTx == [owner |-> 0]

NoReq == [op |-> "none"]

----------------------------------------------------------------------------
\* Helpers of the handlers

\* A form field is the sequence of the code points of its characters,
\* <<53, 48, 48>> for 500; an absent field (request.form.get gives None) and the
\* empty field are both <<>>, float() raises on either.
\*
\* The Python values a field converts to: None, or a float.  A float is nan, an
\* infinity, or a double sign * 0.d1 d2 ... dn * 10^exp with d1 and dn other than
\* 0, held as the digits of its exact decimal expansion; zero is the empty digit
\* sequence.
PyNone ==
    [none |-> TRUE, nan |-> FALSE, inf |-> FALSE, neg |-> FALSE, digits |-> <<>>, exp |-> 0]

PyNaN ==
    [none |-> FALSE, nan |-> TRUE, inf |-> FALSE, neg |-> FALSE, digits |-> <<>>, exp |-> 0]

PyInf(neg) ==
    [none |-> FALSE, nan |-> FALSE, inf |-> TRUE, neg |-> neg, digits |-> <<>>, exp |-> 0]

PyZero(neg) ==
    [none |-> FALSE, nan |-> FALSE, inf |-> FALSE, neg |-> neg, digits |-> <<>>, exp |-> 0]

\* amt <= 0 on floats: every comparison with nan is False; -0.0 <= 0
PyLeqZero(amt) == ~amt.nan /\ (amt.neg \/ (~amt.inf /\ amt.digits = <<>>))

\* ord() of the characters a field of the model is written with
ord ==
    ("\t" :> 9) @@ ("\n" :> 10) @@ ("\f" :> 12) @@ ("\r" :> 13) @@
    (" " :> 32) @@ ("!" :> 33) @@ ("#" :> 35) @@ ("$" :> 36) @@
    ("%" :> 37) @@ ("&" :> 38) @@ ("'" :> 39) @@ ("(" :> 40) @@ (")" :> 41) @@
    ("*" :> 42) @@ ("+" :> 43) @@ ("," :> 44) @@ ("-" :> 45) @@ ("." :> 46) @@
    ("/" :> 47) @@ ("0" :> 48) @@ ("1" :> 49) @@ ("2" :> 50) @@ ("3" :> 51) @@
    ("4" :> 52) @@ ("5" :> 53) @@ ("6" :> 54) @@ ("7" :> 55) @@ ("8" :> 56) @@
    ("9" :> 57) @@ (":" :> 58) @@ (";" :> 59) @@ ("<" :> 60) @@ ("=" :> 61) @@
    (">" :> 62) @@ ("?" :> 63) @@ ("@" :> 64) @@ ("A" :> 65) @@ ("B" :> 66) @@
    ("C" :> 67) @@ ("D" :> 68) @@ ("E" :> 69) @@ ("F" :> 70) @@ ("G" :> 71) @@
    ("H" :> 72) @@ ("I" :> 73) @@ ("J" :> 74) @@ ("K" :> 75) @@ ("L" :> 76) @@
    ("M" :> 77) @@ ("N" :> 78) @@ ("O" :> 79) @@ ("P" :> 80) @@ ("Q" :> 81) @@
    ("R" :> 82) @@ ("S" :> 83) @@ ("T" :> 84) @@ ("U" :> 85) @@ ("V" :> 86) @@
    ("W" :> 87) @@ ("X" :> 88) @@ ("Y" :> 89) @@ ("Z" :> 90) @@ ("[" :> 91) @@
    ("]" :> 93) @@ ("^" :> 94) @@ ("_" :> 95) @@
    ("a" :> 97) @@ ("b" :> 98) @@ ("c" :> 99) @@ ("d" :> 100) @@
    ("e" :> 101) @@ ("f" :> 102) @@ ("g" :> 103) @@ ("h" :> 104) @@
    ("i" :> 105) @@ ("j" :> 106) @@ ("k" :> 107) @@ ("l" :> 108) @@
    ("m" :> 109) @@ ("n" :> 110) @@ ("o" :> 111) @@ ("p" :> 112) @@
    ("q" :> 113) @@ ("r" :> 114) @@ ("s" :> 115) @@ ("t" :> 116) @@
    ("u" :> 117) @@ ("v" :> 118) @@ ("w" :> 119) @@ ("x" :> 120) @@
    ("y" :> 121) @@ ("z" :> 122) @@ ("{" :> 123) @@ ("|" :> 124) @@
    ("}" :> 125) @@ ("~" :> 126)

\* the field that holds the characters of s
Field(s) == [i \in DOMAIN s |-> ord[s[i]]]

\* the code points from 127 on that float() reads as a blank (str.isspace)
UnicodeSpaces ==
    {133, 160, 5760} \cup (8192..8202) \cup {8232, 8233, 8239, 8287, 12288}

\* the code points of the digit zero of every script (category Nd); the digits
\* 1 to 9 of the script follow their zero
DecimalZeros ==
    {48, 1632, 1776, 1984, 2406, 2534, 2662, 2790, 2918, 3046, 3174, 3302,
     3430, 3558, 3664, 3792, 3872, 4160, 4240, 6112, 6160, 6470, 6608, 6784,
     6800, 6992, 7088, 7232, 7248, 42528, 43216, 43264, 43472, 43504, 43600,
     44016, 65296, 66720, 68912, 69734, 69872, 69942, 70096, 70384, 70736,
     70864, 71248, 71360, 71472, 71904, 72016, 72784, 73040, 73120, 92768,
     92864, 93008, 120782, 120792, 120802, 120812, 120822, 123200, 123632,
     125264, 130032}

\* float() of a str first turns it into ASCII: a code point below 127 is kept, a
\* blank becomes a space, a decimal digit its ASCII digit, anything else "?"
ToAscii(c) ==
    IF c < 127 THEN c
    ELSE IF c \in UnicodeSpaces THEN 32
    ELSE IF \E z \in DecimalZeros : c \in z..(z + 9)
    THEN 48 + c - (CHOOSE z \in DecimalZeros : c \in z..(z + 9))
    ELSE 63

\* the ASCII characters float() strips at the two ends: \t \n \v \f \r and space
Whitespace == {9, 10, 11, 12, 13, 32}

DigitVal == [c \in 48..57 |-> c - 48]

\* float() reads inf, infinity and nan in either case
Lower(s) == [i \in DOMAIN s |-> IF s[i] \in 65..90 THEN s[i] + 32 ELSE s[i]]

\* s without the whitespace at its two ends
Strip(s) ==
    LET ink == {i \in DOMAIN s : s[i] \notin Whitespace}
    IN  IF ink = {} THEN <<>>
        ELSE SubSeq(s, CHOOSE i \in ink : \A j \in ink : i <= j,
                       CHOOSE i \in ink : \A j \in ink : j <= i)

\* the position of the first character of s that is in set cs; Len(s) + 1 if none
FirstOf(s, cs) ==
    LET at == {i \in DOMAIN s : s[i] \in cs}
    IN  IF at = {} THEN Len(s) + 1 ELSE CHOOSE i \in at : \A j \in at : i <= j

\* digit (["_"] digit)*: digits, single underscores only between two digits
IsDigitPart(s) ==
    /\ s # <<>>
    /\ \A i \in DOMAIN s :
          \/ s[i] \in DOMAIN DigitVal
          \/ /\ s[i] = ord["_"]
             /\ i > 1 /\ i < Len(s)
             /\ s[i - 1] \in DOMAIN DigitVal
             /\ s[i + 1] \in DOMAIN DigitVal

\* the values of the digit characters ds
DigitValues(ds) == [k \in DOMAIN ds |-> DigitVal[ds[k]]]

\* the digits of a digit part, underscores dropped
DigitsOf(s) ==
    LET IsDigit(c) == c \in DOMAIN DigitVal
    IN  DigitValues(SelectSeq(s, IsDigit))

\* the zeros in front of the first digit of ds that is not 0
LeadingZeros(ds) == FirstOf(ds, 1..9) - 1

\* ds without its leading zeros
WithoutLeadingZeros(ds) == SubSeq(ds, LeadingZeros(ds) + 1, Len(ds))

Reverse(ds) == [i \in DOMAIN ds |-> ds[Len(ds) + 1 - i]]

\* a digit sequence without its leading and its trailing zeros
Significant(ds) == SubSeq(ds, LeadingZeros(ds) + 1, Len(ds) - LeadingZeros(Reverse(ds)))

\* Natural numbers of any size are held as their decimal digits, the first digit
\* other than 0; zero is <<>>.
RECURSIVE NatDigits(_)
NatDigits(n) == IF n = 0 THEN <<>> ELSE Append(NatDigits(n \div 10), n % 10)

\* the number of up to nine digits
RECURSIVE NatValue(_)
NatValue(ds) ==
    IF ds = <<>> THEN 0 ELSE NatValue(SubSeq(ds, 1, Len(ds) - 1)) * 10 + ds[Len(ds)]

\* the number of the digits t, no leading zero, counted as far as cap
CappedValue(t, cap) == IF Len(t) > 9 \/ NatValue(t) > cap THEN cap ELSE NatValue(t)

\* the value of an exponent's digits, counted as far as cap
NatOf(ds, cap) == CappedValue(WithoutLeadingZeros(ds), cap)

\* the digit of ds at i; 0 past its end
DigitAt(ds, i) == IF i <= Len(ds) THEN ds[i] ELSE 0

\* the number of the nine digits of ds after i
NineAfter(ds, i) ==
    DigitAt(ds, i + 1) * 100000000 + DigitAt(ds, i + 2) * 10000000
    + DigitAt(ds, i + 3) * 1000000 + DigitAt(ds, i + 4) * 100000
    + DigitAt(ds, i + 5) * 10000 + DigitAt(ds, i + 6) * 1000
    + DigitAt(ds, i + 7) * 100 + DigitAt(ds, i + 8) * 10 + DigitAt(ds, i + 9)

\* the digits of pad * k for k * d = 10^j, as many as pad has.  The carry into a
\* digit is the floor of k * 0.(the digits after it); as k / 10^j = 1 / d, the j
\* digits after it, w, settle it: floor(w / d).
TimesDigits(pad, k, d, j) ==
    [i \in DOMAIN pad |->
        (pad[i] * k + (NineAfter(pad, i) \div (10 ^ (9 - j))) \div d) % 10]

\* a * k for k * d = 10^j, j from 0 to 9
BigTimes(a, k, d, j) == WithoutLeadingZeros(TimesDigits([i \in 1..j |-> 0] \o a, k, d, j))

\* a * 2^n
RECURSIVE BigTimesPow2(_, _)
BigTimesPow2(a, n) ==
    IF n <= 9 THEN BigTimes(a, 2 ^ n, 5 ^ n, n)
    ELSE LET h == BigTimesPow2(a, n \div 2)
         IN  IF h = <<>> THEN <<>> ELSE BigTimesPow2(h, n - n \div 2)

\* a * 5^n
RECURSIVE BigTimesPow5(_, _)
BigTimesPow5(a, n) ==
    IF n <= 9 THEN BigTimes(a, 5 ^ n, 2 ^ n, n)
    ELSE LET h == BigTimesPow5(a, n \div 2)
         IN  IF h = <<>> THEN <<>> ELSE BigTimesPow5(h, n - n \div 2)

\* a without its last digit
AllButLast(a) == SubSeq(a, 1, Len(a) - 1)

\* floor(a / 2): the digits of a * 5 without the last one
BigHalf(a) == AllButLast(BigTimes(a, 5, 2, 1))

BigOdd(a) == a # <<>> /\ a[Len(a)] % 2 = 1

\* a, its last nines digits all the nines at its end, plus 1: the nines become
\* zeros under the carry
IncAfter(a, nines) ==
    IF nines = Len(a) THEN <<1>> \o [i \in 1..nines |-> 0]
    ELSE [i \in DOMAIN a |-> IF i < Len(a) - nines THEN a[i]
                             ELSE IF i = Len(a) - nines THEN a[i] + 1
                             ELSE 0]

\* a + 1
BigInc(a) == IncAfter(a, FirstOf(Reverse(a), 0..8) - 1)

\* 0.a < 0.b for digit sequences a and b
LexLess(a, b) ==
    \E i \in 1..(Len(a) + Len(b)) :
        /\ DigitAt(a, i) < DigitAt(b, i)
        /\ \A j \in 1..(i - 1) : DigitAt(a, j) = DigitAt(b, j)

\* a < b
BigLess(a, b) == Len(a) < Len(b) \/ (Len(a) = Len(b) /\ LexLess(a, b))

\* floor(a * 10^e) as q, and in sticky whether digits other than 0 were dropped
BigTimesPow10(a, e) ==
    IF e >= 0
    THEN [q |-> IF a = <<>> THEN <<>> ELSE a \o [i \in 1..e |-> 0], sticky |-> FALSE]
    ELSE IF Len(a) + e <= 0
    THEN [q |-> <<>>, sticky |-> a # <<>>]
    ELSE [q |-> SubSeq(a, 1, Len(a) + e),
          sticky |-> \E i \in (Len(a) + e + 1)..Len(a) : a[i] # 0]

\* 2^53 and 2^54: a double's significand is below 2^53
Two53 == <<9,0,0,7,1,9,9,2,5,4,7,4,0,9,9,2>>

Two54 == <<1,8,0,1,4,3,9,8,5,0,9,4,8,1,9,8,4>>

\* The double nearest to v = 0.ds * 10^e, ds significant, is m * 2^e2 for a
\* significand m below 2^53 and a binary exponent e2 no less than -1074 (the
\* doubles below 2^-1022 are spaced 2^-1074 apart).  With k = 1 - e2, m is
\* floor(v * 2^k) without its last bit, rounded by that bit and the rest of v.

\* no more than floor(log2 v): v >= 10^(e - 1), log2 10 = 3.3219...
Log2Floor(e) ==
    IF e >= 1 THEN ((e - 1) * 3321) \div 1000
    ELSE 0 - ((1 - e) * 3322 + 999) \div 1000

\* a k with floor(v * 2^k) no less than 2^53, up to the k of the smallest doubles
ScaleOf(e) == IF 53 - Log2Floor(e) > 1075 THEN 1075 ELSE 53 - Log2Floor(e)

\* floor(v * 2^k) as q, and in sticky whether v * 2^k is more than q; for k < 0,
\* 2^k = 5^-k * 10^k
Scaled(ds, e, k) ==
    IF k >= 0 THEN BigTimesPow10(BigTimesPow2(ds, k), e - Len(ds))
    ELSE BigTimesPow10(BigTimesPow5(ds, 0 - k), e - Len(ds) + k)

\* y = floor(v * 2^k) halved until it is below 2^54, k lowered with it
RECURSIVE Narrow(_, _, _)
Narrow(y, sticky, k) ==
    IF BigLess(y, Two54) THEN [y |-> y, sticky |-> sticky, k |-> k]
    ELSE Narrow(BigHalf(y), sticky \/ BigOdd(y), k - 1)

\* half rounded to the nearest, ties to the even significand: up where the bit
\* dropped is set and either more of v follows it or half is odd
RoundHalfEven(half, bit, sticky, k) ==
    [m |-> IF bit /\ (sticky \/ BigOdd(half)) THEN BigInc(half) ELSE half, e2 |-> 1 - k]

Rounded(n) == RoundHalfEven(BigHalf(n.y), BigOdd(n.y), n.sticky, n.k)

Narrowed(y, k) == Narrow(y.q, y.sticky, k)

\* the significand m and the binary exponent e2 of the double nearest to
\* 0.ds * 10^e; m is 2^53 where the rounding carried
NearestDouble(ds, e) == Rounded(Narrowed(Scaled(ds, e, ScaleOf(e)), ScaleOf(e)))

\* the float sign * x * 2^e2, e2 >= 0, or sign * x * 10^e2, e2 < 0, as its digits
PyDigits(neg, x, e2) ==
    [none |-> FALSE, nan |-> FALSE, inf |-> FALSE, neg |-> neg,
     digits |-> Significant(x), exp |-> IF e2 >= 0 THEN Len(x) ELSE Len(x) + e2]

\* the float sign * d.m * 2^d.e2: the largest double is (2^53 - 1) * 2^971;
\* for e2 < 0, m * 2^e2 = m * 5^-e2 * 10^e2
PyDouble(neg, d) ==
    IF d.m = <<>> THEN PyZero(neg)
    ELSE IF d.e2 > 971 \/ (d.e2 = 971 /\ d.m = Two53) THEN PyInf(neg)
    ELSE IF d.e2 >= 0 THEN PyDigits(neg, BigTimesPow2(d.m, d.e2), d.e2)
    ELSE PyDigits(neg, BigTimesPow5(d.m, 0 - d.e2), d.e2)

\* the double of sign * 0.ds * 10^e, ds significant.  From 10^310 on lie no
\* doubles and below 10^-324 only zero; an integer of 15 digits is a double.
PyDecimal(neg, ds, e) ==
    IF ds = <<>> THEN PyZero(neg)
    ELSE IF e > 310 THEN PyInf(neg)
    ELSE IF e < -324 THEN PyZero(neg)
    ELSE IF Len(ds) <= e /\ e <= 15
    THEN [none |-> FALSE, nan |-> FALSE, inf |-> FALSE, neg |-> neg,
          digits |-> ds, exp |-> e]
    ELSE PyDouble(neg, NearestDouble(ds, e))

\* the float of the natural number n
PyFloat(n) == PyDecimal(FALSE, Significant(NatDigits(n)), Len(NatDigits(n)))

\* float(val) of a string: whitespace stripped, a sign, then inf, infinity or nan
\* in either case, or digits with an optional point and an optional exponent;
\* None where float() raises ValueError.

\* the float of the digits ids before and fds after the point, times 10^e10
ParseDigits(neg, ids, fds, e10) ==
    PyDecimal(neg, Significant(ids \o fds), Len(ids) - LeadingZeros(ids \o fds) + e10)

\* the integer part and the fraction of the mantissa, and the exponent: whether
\* there is one, whether it is negative, and its digits
ParseParts(neg, ipart, fpart, exponent, eneg, edigits, cap) ==
    IF ~ /\ ipart # <<>> \/ fpart # <<>>
         /\ ipart = <<>> \/ IsDigitPart(ipart)
         /\ fpart = <<>> \/ IsDigitPart(fpart)
         /\ ~exponent \/ IsDigitPart(edigits)
    THEN PyNone
    ELSE ParseDigits(neg, DigitsOf(ipart), DigitsOf(fpart),
                     IF ~exponent THEN 0
                     ELSE IF eneg THEN 0 - NatOf(DigitsOf(edigits), cap)
                     ELSE NatOf(DigitsOf(edigits), cap))

\* the mantissa, split at its point, and the exponent without its sign
ParseNumber(neg, mant, exponent, expo, cap) ==
    ParseParts(neg, SubSeq(mant, 1, FirstOf(mant, {ord["."]}) - 1),
               SubSeq(mant, FirstOf(mant, {ord["."]}) + 1, Len(mant)),
               exponent, expo # <<>> /\ expo[1] = ord["-"],
               IF expo # <<>> /\ expo[1] \in {ord["+"], ord["-"]} THEN Tail(expo)
               ELSE expo,
               cap)

\* the field without its sign, split at its first e or E
ParseUnsigned(neg, body, epos, cap) ==
    IF Lower(body) \in {Field(<<"i","n","f">>),
                        Field(<<"i","n","f","i","n","i","t","y">>)}
    THEN PyInf(neg)
    ELSE IF Lower(body) = Field(<<"n","a","n">>)
    THEN PyNaN
    ELSE ParseNumber(neg, SubSeq(body, 1, epos - 1), epos <= Len(body),
                     SubSeq(body, epos + 1, Len(body)), cap)

\* the stripped field t: its sign and the rest
ParseStripped(t, cap) ==
    IF t # <<>> /\ t[1] \in {ord["+"], ord["-"]}
    THEN ParseUnsigned(t[1] = ord["-"], Tail(t), FirstOf(Tail(t), {ord["e"], ord["E"]}),
                       cap)
    ELSE ParseUnsigned(FALSE, t, FirstOf(t, {ord["e"], ord["E"]}), cap)

\* An exponent is counted as far as the field's length past every double, where
\* no mantissa of the field brings the value back.
ParseFloat(val) == ParseStripped(Strip([i \in DOMAIN val |-> ToAscii(val[i])]), Len(val) + 400)

\* the float, or default where there is none
OrDefault(amt, default) == IF amt.none THEN default ELSE amt

\* try: return float(val); except: return default
sanitize_numeric(val, default) == OrDefault(ParseFloat(val), default)

\* role_required(*roles): the session's role is one of roles, or admin
RoleAllowed(u, roles) == users[u] \in roles \/ users[u] = "admin"

\* a guard that lets every logged-in principal through
MayManageAnyone(u, shipper_id) == TRUE

\* the guard of accept_bid, reject_bid and update_status:
\* not (session["user_id"] != shipper_id and session.get("role") != "admin")
MayManage(u, shipper_id) == u = shipper_id \/ users[u] = "admin"

\* SELECT b.*, l.shipper_id FROM bids b JOIN loads l ON l.id=b.load_id WHERE b.id=?
\* on the committed tables: the set of rows it returns (none or one)
SelectBid(bid_id) ==
    IF bid_id \in DOMAIN bids /\ bids[bid_id].load_id \in DOMAIN loads
    THEN {[id |-> bid_id,
           load_id |-> bids[bid_id].load_id,
           trucker_id |-> bids[bid_id].trucker_id,
           status |-> bids[bid_id].status,
           shipper_id |-> loads[bids[bid_id].load_id].shipper_id]}
    ELSE {}

\* the duplicate query without its trucker_id=? condition, so that it looks at the
\* first bidder of the load only
SelectPendingOfFirstBidder(load_id, trucker_id) ==
    {i \in DOMAIN bids : /\ bids[i].load_id = load_id
                         /\ \A j \in 1..(i - 1) : bids[j].load_id # load_id
                         /\ bids[i].status = "pending"}

\* SELECT id FROM bids WHERE load_id=? AND trucker_id=? AND status='pending'
SelectPending(load_id, trucker_id) ==
    {i \in DOMAIN bids : /\ bids[i].load_id = load_id
                         /\ bids[i].trucker_id = trucker_id
                         /\ bids[i].status = "pending"}

\* The ids of a route, <int:load_id> and <int:bid_id>, are Python ints of any size,
\* held as their decimal digits like every natural number here.

\* the largest INTEGER of SQLite, 2^63 - 1
MaxInteger == <<9, 2, 2, 3, 3, 7, 2, 0, 3, 6, 8, 5, 4, 7, 7, 5, 8, 0, 7>>

\* sqlite3 binds no Python int above 2^63 - 1: execute() raises OverflowError
\* ("Python int too large to convert to SQLite INTEGER") before the statement runs
TooLarge(n) == BigLess(MaxInteger, n)

\* the row id an int that binds stands for; the ids that bind in the requests of
\* this module have up to nine digits
RowId(n) == NatValue(n)

\* the status of a load as committed, "absent" when the id does not resolve
StatusOf(load_id) ==
    IF load_id \in DOMAIN loads THEN loads[load_id].status ELSE "absent"

\* the handler returns: the response is recorded with the request it answers
Finish(p, r, result) ==
    /\ pc' = [pc EXCEPT ![p] = "done"]
    /\ req' = [req EXCEPT ![p] = r]
    /\ res' = [res EXCEPT ![p] = result]

\* the handler goes on to statement at
Goto(p, r, at) ==
    /\ pc' = [pc EXCEPT ![p] = at]
    /\ req' = [req EXCEPT ![p] = r]
    /\ UNCHANGED res

\* the first INSERT or UPDATE of a handler: the implicit BEGIN and the write lock,
\* free only while no other connection's transaction is open
CanBegin == tx = NoTx

\* the view of the tables a transaction starts from
Begin(p) == [owner |-> p, loads |-> loads, bids |-> bids]

\* db.commit(): the transaction's rows replace the committed ones, the lock is freed
Commit(p) ==
    /\ tx.owner = p
    /\ loads' = tx.loads
    /\ bids' = tx.bids
    /\ tx' = NoTx
    /\ pc' = [pc EXCEPT ![p] = "done"]
    /\ res' = [res EXCEPT ![p] = "ok"]
    /\ UNCHANGED req

----------------------------------------------------------------------------
\* place_bid (submitBid)

\* lines 575-586: the role check, the amount check and the duplicate check, whose
\* SELECT (lines 582-583) is the first statement to bind load_id
PlaceBidCheck(p, u, load_id, amount) ==
    /\ pc[p] = "idle"
    /\ LET amt == sanitize_numeric(amount, PyNone)
           r == IF TooLarge(load_id)
                THEN [op |-> "place_bid", user |-> u, amount |-> amt]
                ELSE [op |-> "place_bid", user |-> u, load_id |-> RowId(load_id),
                      amount |-> amt, load_status0 |-> StatusOf(RowId(load_id))]
       IN  IF ~RoleAllowed(u, {"trucker"})
           THEN Finish(p, r, "Forbidden")
           ELSE IF amt.none \/ PyLeqZero(amt)
           THEN Finish(p, r, "InvalidAmount")
           ELSE IF TooLarge(load_id)
           THEN Finish(p, r, "OverflowError")
           ELSE IF SelectPending(RowId(load_id), u) # {}
           THEN Finish(p, r, "DuplicatePendingBid")
           ELSE Goto(p, r, "bid_insert")
    /\ UNCHANGED <<loads, bids, tx>>

\* lines 587-588: INSERT INTO bids(load_id,trucker_id,amount,message).  The
\* connection enforces no foreign key, so any load_id is stored; sqlite3 binds nan
\* as NULL, which amount REAL NOT NULL refuses: the statement raises IntegrityError and the
\* request ends in a 500 with nothing written; the transaction the statement
\* opened keeps the write lock until close_db
PlaceBidInsert(p) ==
    /\ pc[p] = "bid_insert"
    /\ CanBegin
    /\ IF req[p].amount.nan
       THEN /\ tx' = Begin(p)
            /\ pc' = [pc EXCEPT ![p] = "done"]
            /\ res' = [res EXCEPT ![p] = "IntegrityError"]
            /\ UNCHANGED <<loads, bids, req>>
       ELSE /\ tx' = [Begin(p) EXCEPT
                        !.bids = Append(bids, NewBid(req[p].load_id, req[p].user,
                                                     req[p].amount))]
            /\ pc' = [pc EXCEPT ![p] = "bid_commit"]
            /\ UNCHANGED <<loads, bids, req, res>>

\* line 589
PlaceBidCommit(p) ==
    /\ pc[p] = "bid_commit"
    /\ Commit(p)

----------------------------------------------------------------------------
\* accept_bid (acceptBid)

\* lines 596-600 with a refusal of a bid that is no longer pending
AcceptBidSelectPendingOnly(p, u, bid_id) ==
    /\ pc[p] = "idle"
    /\ LET rows == SelectBid(RowId(bid_id))
           r0 == [op |-> "accept_bid", user |-> u, bid_id |-> RowId(bid_id)]
       IN  IF TooLarge(bid_id)
           THEN Finish(p, [op |-> "accept_bid", user |-> u], "OverflowError")
           ELSE IF rows = {}
           THEN Finish(p, r0, "NotFound")
           ELSE LET b == CHOOSE x \in rows : TRUE
                    r == [op |-> "accept_bid", user |-> u, bid_id |-> RowId(bid_id),
                          load_id |-> b.load_id, trucker_id |-> b.trucker_id,
                          shipper_id |-> b.shipper_id,
                          bid_status0 |-> b.status,
                          load_status0 |-> StatusOf(b.load_id)]
                IN  IF ~MayManage(u, b.shipper_id)
                    THEN Finish(p, r, "Forbidden")
                    ELSE IF b.status # "pending"
                    THEN Finish(p, r, "BidNotPending")
                    ELSE Goto(p, r, "accept_upd_bid")
    /\ UNCHANGED <<loads, bids, tx>>

\* lines 596-600: fetch the bid with its load's shipper, 404, 403
AcceptBidSelect(p, u, bid_id) ==
    /\ pc[p] = "idle"
    /\ LET rows == SelectBid(RowId(bid_id))
           r0 == [op |-> "accept_bid", user |-> u, bid_id |-> RowId(bid_id)]
       IN  IF TooLarge(bid_id)
           THEN Finish(p, [op |-> "accept_bid", user |-> u], "OverflowError")
           ELSE IF rows = {}
           THEN Finish(p, r0, "NotFound")
           ELSE LET b == CHOOSE x \in rows : TRUE
                    r == [op |-> "accept_bid", user |-> u, bid_id |-> RowId(bid_id),
                          load_id |-> b.load_id, trucker_id |-> b.trucker_id,
                          shipper_id |-> b.shipper_id,
                          bid_status0 |-> b.status,
                          load_status0 |-> StatusOf(b.load_id)]
                IN  IF ~MayManage(u, b.shipper_id)
                    THEN Finish(p, r, "Forbidden")
                    ELSE Goto(p, r, "accept_upd_bid")
    /\ UNCHANGED <<loads, bids, tx>>

\* line 602, written to the committed table at once (no transaction around it)
AcceptBidUpdBidAutocommit(p) ==
    /\ pc[p] = "accept_upd_bid"
    /\ CanBegin
    /\ bids' = [bids EXCEPT ![req[p].bid_id].status = "accepted"]
    /\ tx' = [owner |-> p, loads |-> loads, bids |-> bids']
    /\ pc' = [pc EXCEPT ![p] = "accept_upd_others"]
    /\ UNCHANGED <<loads, req, res>>

\* line 602: UPDATE bids SET status='accepted' WHERE id=?
AcceptBidUpdBid(p) ==
    /\ pc[p] = "accept_upd_bid"
    /\ CanBegin
    /\ tx' = [Begin(p) EXCEPT !.bids[req[p].bid_id].status = "accepted"]
    /\ pc' = [pc EXCEPT ![p] = "accept_upd_others"]
    /\ UNCHANGED <<loads, bids, req, res>>

\* line 603 left out: the other bids keep their status
AcceptBidUpdOthersSkipped(p) ==
    /\ pc[p] = "accept_upd_others"
    /\ tx.owner = p
    /\ pc' = [pc EXCEPT ![p] = "accept_upd_load"]
    /\ UNCHANGED <<loads, bids, tx, req, res>>

\* line 603 without its load_id=? condition: every other bid is rejected
AcceptBidUpdOthersEverywhere(p) ==
    /\ pc[p] = "accept_upd_others"
    /\ tx.owner = p
    /\ tx' = [tx EXCEPT !.bids =
                [i \in DOMAIN tx.bids |->
                    IF i # req[p].bid_id
                    THEN [tx.bids[i] EXCEPT !.status = "rejected"]
                    ELSE tx.bids[i]]]
    /\ pc' = [pc EXCEPT ![p] = "accept_upd_load"]
    /\ UNCHANGED <<loads, bids, req, res>>

\* line 603: UPDATE bids SET status='rejected' WHERE load_id=? AND id<>?
AcceptBidUpdOthers(p) ==
    /\ pc[p] = "accept_upd_others"
    /\ tx.owner = p
    /\ tx' = [tx EXCEPT !.bids =
                [i \in DOMAIN tx.bids |->
                    IF tx.bids[i].load_id = req[p].load_id /\ i # req[p].bid_id
                    THEN [tx.bids[i] EXCEPT !.status = "rejected"]
                    ELSE tx.bids[i]]]
    /\ pc' = [pc EXCEPT ![p] = "accept_upd_load"]
    /\ UNCHANGED <<loads, bids, req, res>>

\* line 604 writing the status only: the load keeps the trucker it had
AcceptBidUpdLoadStatusOnly(p) ==
    /\ pc[p] = "accept_upd_load"
    /\ tx.owner = p
    /\ tx' = [tx EXCEPT !.loads[req[p].load_id].status = "assigned"]
    /\ pc' = [pc EXCEPT ![p] = "accept_commit"]
    /\ UNCHANGED <<loads, bids, req, res>>

\* line 604: UPDATE loads SET status='assigned', trucker_id=? WHERE id=?
AcceptBidUpdLoad(p) ==
    /\ pc[p] = "accept_upd_load"
    /\ tx.owner = p
    /\ tx' = [tx EXCEPT !.loads[req[p].load_id] =
                [@ EXCEPT !.status = "assigned", !.trucker_id = req[p].trucker_id]]
    /\ pc' = [pc EXCEPT ![p] = "accept_commit"]
    /\ UNCHANGED <<loads, bids, req, res>>

\* line 605
AcceptBidCommit(p) ==
    /\ pc[p] = "accept_commit"
    /\ Commit(p)

----------------------------------------------------------------------------
\* reject_bid (rejectBid)

\* lines 612-616
RejectBidSelect(p, u, bid_id) ==
    /\ pc[p] = "idle"
    /\ LET rows == SelectBid(RowId(bid_id))
           r0 == [op |-> "reject_bid", user |-> u, bid_id |-> RowId(bid_id)]
       IN  IF TooLarge(bid_id)
           THEN Finish(p, [op |-> "reject_bid", user |-> u], "OverflowError")
           ELSE IF rows = {}
           THEN Finish(p, r0, "NotFound")
           ELSE LET b == CHOOSE x \in rows : TRUE
                    r == [op |-> "reject_bid", user |-> u, bid_id |-> RowId(bid_id),
                          load_id |-> b.load_id, trucker_id |-> b.trucker_id,
                          shipper_id |-> b.shipper_id,
                          bid_status0 |-> b.status,
                          load_status0 |-> StatusOf(b.load_id)]
                IN  IF ~MayManage(u, b.shipper_id)
                    THEN Finish(p, r, "Forbidden")
                    ELSE Goto(p, r, "reject_upd")
    /\ UNCHANGED <<loads, bids, tx>>

\* line 617 with WHERE load_id=? in place of WHERE id=?
RejectBidUpdWholeLoad(p) ==
    /\ pc[p] = "reject_upd"
    /\ CanBegin
    /\ tx' = [Begin(p) EXCEPT !.bids =
                [i \in DOMAIN bids |->
                    IF bids[i].load_id = req[p].load_id
                    THEN [bids[i] EXCEPT !.status = "rejected"]
                    ELSE bids[i]]]
    /\ pc' = [pc EXCEPT ![p] = "reject_commit"]
    /\ UNCHANGED <<loads, bids, req, res>>

\* line 617 putting an accepted bid back to pending in place of rejecting it
RejectBidUpdReopens(p) ==
    /\ pc[p] = "reject_upd"
    /\ CanBegin
    /\ tx' = [Begin(p) EXCEPT !.bids[req[p].bid_id].status =
                IF bids[req[p].bid_id].status = "accepted" THEN "pending" ELSE "rejected"]
    /\ pc' = [pc EXCEPT ![p] = "reject_commit"]
    /\ UNCHANGED <<loads, bids, req, res>>

\* line 617: UPDATE bids SET status='rejected' WHERE id=?
RejectBidUpd(p) ==
    /\ pc[p] = "reject_upd"
    /\ CanBegin
    /\ tx' = [Begin(p) EXCEPT !.bids[req[p].bid_id].status = "rejected"]
    /\ pc' = [pc EXCEPT ![p] = "reject_commit"]
    /\ UNCHANGED <<loads, bids, req, res>>

\* line 618
RejectBidCommit(p) ==
    /\ pc[p] = "reject_commit"
    /\ Commit(p)

----------------------------------------------------------------------------
\* update_status (transitionLoad)

\* lines 625-629: 400 for a status outside the five, then the SELECT of line 627,
\* the first statement to bind load_id, 404, 403
UpdateStatusSelect(p, u, load_id, status) ==
    /\ pc[p] = "idle"
    /\ LET r == IF TooLarge(load_id)
                THEN [op |-> "update_status", user |-> u, status |-> status]
                ELSE [op |-> "update_status", user |-> u, load_id |-> RowId(load_id),
                      status |-> status, load_status0 |-> StatusOf(RowId(load_id))]
       IN  IF status \notin LoadStatuses
           THEN Finish(p, r, "BadRequest")
           ELSE IF TooLarge(load_id)
           THEN Finish(p, r, "OverflowError")
           ELSE IF RowId(load_id) \notin DOMAIN loads
           THEN Finish(p, r, "NotFound")
           ELSE IF ~MayManage(u, loads[RowId(load_id)].shipper_id)
           THEN Finish(p, r, "Forbidden")
           ELSE Goto(p, r, "status_upd")
    /\ UNCHANGED <<loads, bids, tx>>

\* line 630 followed by a rejection of the load's pending bids on cancellation
UpdateStatusUpdCascade(p) ==
    /\ pc[p] = "status_upd"
    /\ CanBegin
    /\ tx' = [Begin(p) EXCEPT
                 !.loads[req[p].load_id].status = req[p].status,
                 !.bids = [i \in DOMAIN bids |->
                             IF /\ req[p].status = "cancelled"
                                /\ bids[i].load_id = req[p].load_id
                                /\ bids[i].status = "pending"
                             THEN [bids[i] EXCEPT !.status = "rejected"]
                             ELSE bids[i]]]
    /\ pc' = [pc EXCEPT ![p] = "status_commit"]
    /\ UNCHANGED <<loads, bids, req, res>>

\* line 630 also writing trucker_id=NULL when the load is put back to open
UpdateStatusUpdClearsTrucker(p) ==
    /\ pc[p] = "status_upd"
    /\ CanBegin
    /\ tx' = [Begin(p) EXCEPT
                 !.loads[req[p].load_id].status = req[p].status,
                 !.loads[req[p].load_id].trucker_id =
                     IF req[p].status = "open" THEN NULL ELSE @]
    /\ pc' = [pc EXCEPT ![p] = "status_commit"]
    /\ UNCHANGED <<loads, bids, req, res>>

\* line 630: UPDATE loads SET status=? WHERE id=?
UpdateStatusUpd(p) ==
    /\ pc[p] = "status_upd"
    /\ CanBegin
    /\ tx' = [Begin(p) EXCEPT !.loads[req[p].load_id].status = req[p].status]
    /\ pc' = [pc EXCEPT ![p] = "status_commit"]
    /\ UNCHANGED <<loads, bids, req, res>>

\* line 631
UpdateStatusCommit(p) ==
    /\ pc[p] = "status_commit"
    /\ Commit(p)

----------------------------------------------------------------------------
\* new_load (POST /load/new)

\* role_required("shipper","admin"), line 443; titled says whether the form holds
\* the fields title, pickup_city and delivery_city
NewLoadCheck(p, u, titled) ==
    /\ pc[p] = "idle"
    /\ LET r == [op |-> "new_load", user |-> u, titled |-> titled]
       IN  IF ~RoleAllowed(u, {"shipper", "admin"})
           THEN Finish(p, r, "Forbidden")
           ELSE Goto(p, r, "load_insert")
    /\ UNCHANGED <<loads, bids, tx>>

\* lines 448-453: INSERT INTO loads(shipper_id, title, ...); the new row takes the
\* next id.  f.get() of a missing field is None, which title, pickup_city and
\* delivery_city, all NOT NULL, refuse: the statement raises IntegrityError and
\* the request ends in a 500 with nothing written; the transaction the statement
\* opened keeps the write lock until close_db
NewLoadInsert(p) ==
    /\ pc[p] = "load_insert"
    /\ CanBegin
    /\ IF ~req[p].titled
       THEN /\ tx' = Begin(p)
            /\ pc' = [pc EXCEPT ![p] = "done"]
            /\ res' = [res EXCEPT ![p] = "IntegrityError"]
            /\ UNCHANGED <<loads, bids, req>>
       ELSE /\ tx' = [Begin(p) EXCEPT !.loads = Append(loads, NewLoad(req[p].user))]
            /\ pc' = [pc EXCEPT ![p] = "load_commit"]
            /\ UNCHANGED <<loads, bids, req, res>>

\* line 454
NewLoadCommit(p) ==
    /\ pc[p] = "load_commit"
    /\ Commit(p)

----------------------------------------------------------------------------
\* The handlers that write to the other tables of the file (messages,
\* saved_loads, users).  Their rows are no part of the model; the write lock
\* they take is the one of loads and bids.

\* send_message (POST /message/send), lines 685-692 up to the call of execute:
\* login_required lets every principal of the model through; form says whether
\* the fields to and body are filled and to and load_id are ids that bind
\* ("complete"), to or body is missing ("empty"), to is no number ("bad_to":
\* int(receiver_id) raises ValueError), load_id is filled with no number
\* ("bad_load_id": int(load_id) raises ValueError) or one of the two numbers is
\* above 2^63 - 1 ("too_large_id")
SendMessageCheck(p, u, form) ==
    /\ pc[p] = "idle"
    /\ LET r == [op |-> "send_message", user |-> u,
                 overflow |-> form = "too_large_id"]
       IN  IF form = "empty"
           THEN Finish(p, r, "MissingFields")
           ELSE IF form \in {"bad_to", "bad_load_id"}
           THEN Finish(p, r, "ValueError")
           ELSE Goto(p, r, "message_insert")
    /\ UNCHANGED <<loads, bids, tx>>

\* lines 691-692: INSERT INTO messages(sender_id,receiver_id,load_id,body); the
\* connection enforces no foreign key, so any receiver and load are stored.  An
\* id that does not bind raises OverflowError before the statement runs: no lock
\* is asked for or taken, and the request ends in a 500
SendMessageInsert(p) ==
    /\ pc[p] = "message_insert"
    /\ IF req[p].overflow
       THEN /\ pc' = [pc EXCEPT ![p] = "done"]
            /\ res' = [res EXCEPT ![p] = "OverflowError"]
            /\ UNCHANGED <<loads, bids, tx, req>>
       ELSE /\ CanBegin
            /\ tx' = Begin(p)
            /\ pc' = [pc EXCEPT ![p] = "message_commit"]
            /\ UNCHANGED <<loads, bids, req, res>>

\* line 693
SendMessageCommit(p) ==
    /\ pc[p] = "message_commit"
    /\ Commit(p)

\* save_load (GET /save/<load_id>): role_required("trucker"), line 636
SaveLoadCheck(p, u, load_id) ==
    /\ pc[p] = "idle"
    /\ LET r == [op |-> "save_load", user |-> u, overflow |-> TooLarge(load_id)]
       IN  IF ~RoleAllowed(u, {"trucker"})
           THEN Finish(p, r, "Forbidden")
           ELSE Goto(p, r, "save_insert")
    /\ UNCHANGED <<loads, bids, tx>>

\* line 641: INSERT OR IGNORE INTO saved_loads(user_id,load_id); the statement
\* takes the write lock also when the row exists and is ignored.  A load_id that
\* does not bind raises OverflowError before the statement runs, with no lock
\* asked for or taken; except: (line 644) catches it and answers "Could not save."
SaveLoadInsert(p) ==
    /\ pc[p] = "save_insert"
    /\ IF req[p].overflow
       THEN /\ pc' = [pc EXCEPT ![p] = "done"]
            /\ res' = [res EXCEPT ![p] = "CouldNotSave"]
            /\ UNCHANGED <<loads, bids, tx, req>>
       ELSE /\ CanBegin
            /\ tx' = Begin(p)
            /\ pc' = [pc EXCEPT ![p] = "save_commit"]
            /\ UNCHANGED <<loads, bids, req, res>>

\* lines 642-643
SaveLoadCommit(p) ==
    /\ pc[p] = "save_commit"
    /\ Commit(p)

\* register (POST /register), lines 280-283: the checks of the email and of the
\* password; form says which of them the fields fail, if any
RegisterCheck(p, form) ==
    /\ pc[p] = "idle"
    /\ LET r == [op |-> "register"]
       IN  IF form = "invalid_email"
           THEN Finish(p, r, "InvalidEmail")
           ELSE IF form = "short_password"
           THEN Finish(p, r, "ShortPassword")
           ELSE Goto(p, r, "user_insert")
    /\ UNCHANGED <<loads, bids, tx>>

\* lines 287-288: INSERT INTO users(role,name,email,...).  refused says whether
\* users holds the email already (email is UNIQUE) or role is none of the three
\* the table's CHECK admits: the statement raises IntegrityError, which the
\* handler catches (lines 292-293); the transaction the statement opened keeps
\* the write lock until close_db
RegisterInsert(p, refused) ==
    /\ pc[p] = "user_insert"
    /\ CanBegin
    /\ tx' = Begin(p)
    /\ IF refused
       THEN /\ pc' = [pc EXCEPT ![p] = "done"]
            /\ res' = [res EXCEPT ![p] = "EmailTaken"]
            /\ UNCHANGED <<loads, bids, req>>
       ELSE /\ pc' = [pc EXCEPT ![p] = "user_commit"]
            /\ UNCHANGED <<loads, bids, req, res>>

\* line 289
RegisterCommit(p) ==
    /\ pc[p] = "user_commit"
    /\ Commit(p)

----------------------------------------------------------------------------
\* The store's lock and the end of a request

\* the statements that open a transaction
FirstWrite ==
    {"bid_insert", "accept_upd_bid", "reject_upd", "status_upd", "load_insert",
     "message_insert", "save_insert", "user_insert"}

\* the statement p is at raises OverflowError for an id before it runs
BindFails(p) == "overflow" \in DOMAIN req[p] /\ req[p].overflow

\* sqlite3.connect's default timeout (5 s) runs out while another connection holds
\* the write lock: the statement raises OperationalError, the request ends in a 500
\* and close_db drops the connection with nothing written.  save_load alone
\* catches the exception (except:, line 644) and answers that it could not save.
BusyTimeout(p) ==
    /\ pc[p] \in FirstWrite
    /\ ~BindFails(p)
    /\ ~CanBegin
    /\ pc' = [pc EXCEPT ![p] = "done"]
    /\ res' = [res EXCEPT ![p] = IF pc[p] = "save_insert" THEN "CouldNotSave"
                                  ELSE "OperationalError"]
    /\ UNCHANGED <<loads, bids, tx, req>>

\* the response is sent and close_db closes the connection, which ends the
\* transaction a failed statement left open; the handler is free for the next
\* request
Return(p) ==
    /\ pc[p] = "done"
    /\ pc' = [pc EXCEPT ![p] = "idle"]
    /\ req' = [req EXCEPT ![p] = NoReq]
    /\ res' = [res EXCEPT ![p] = "none"]
    /\ tx' = IF tx.owner = p THEN NoTx ELSE tx
    /\ UNCHANGED <<loads, bids>>

----------------------------------------------------------------------------
\* Specifications

Handlers == {1, 2}

Init ==
    /\ loads = [l \in DOMAIN posted |-> NewLoad(posted[l])]
    /\ bids = <<>>
    /\ tx = NoTx
    /\ pc = [p \in Handlers |-> "idle"]
    /\ req = [p \in Handlers |-> NoReq]
    /\ res = [p \in Handlers |-> "none"]

\* the inputs of the requests: principals (the admin, the shipper of load 1, the
\* shipper of load 2, a trucker), load ids (NoLoad is no load, TooLargeId does not bind), bid ids, target
\* statuses (one outside the five), and amount fields: a word, a negative number,
\* zero, an underflow to zero, nan, minus infinity, and 500 written in three ways,
\* one of them in Arabic-Indic digits
Principals == {1, 2, 3, 4}

\* an id past every row the loads table may hold
NoLoad == MaxLoads + 1

\* the ids of a route for the row ids rows
Ids(rows) == {NatDigits(n) : n \in rows}

\* 2^63, the least id that does not bind
TooLargeId == BigInc(MaxInteger)

LoadArgs == Ids({1, NoLoad}) \cup {TooLargeId}

BidArgs == Ids(1..MaxBids) \cup {TooLargeId}

StatusArgs == LoadStatuses \cup {"archived"}

AmountArgs ==
    {Field(<<"a","b","c">>), Field(<<"-","5">>), Field(<<"0">>),
     Field(<<"1","e","-","4","0","0">>), Field(<<"N","a","N">>),
     Field(<<"-","i","n","f">>), Field(<<"5","0","0">>), Field(<<" ","5","e","2">>),
     <<1637, 1632, 1632>>}

\* the principals who post a load: the shipper of load 1, and a trucker, who is
\* refused
Posters == {2, 4}

\* the statements of a handler that is adding a row to bids
Inserting == {"bid_insert", "bid_commit"}

\* the bids table, with the rows being added, holds fewer than N rows
Room(N) == Len(bids) + Cardinality({q \in DOMAIN pc : pc[q] \in Inserting}) < N

\* the statements of a handler that is adding a row to loads
Posting == {"load_insert", "load_commit"}

\* the loads table, with the rows being added, holds fewer than MaxLoads rows
LoadRoom == Len(loads) + Cardinality({q \in DOMAIN pc : pc[q] \in Posting}) < MaxLoads

\* the forms of a message and of a registration
MessageForms == {"complete", "empty", "bad_to", "bad_load_id", "too_large_id"}

RegisterForms == {"ok", "invalid_email", "short_password"}

\* one step of handler p, its request drawn from the given inputs: U the principals
\* who manage loads and bids, T those who place bids and save loads, L the load
\* ids, B the bid ids, S the target statuses, A the amount fields, P the principals
\* who post loads and send messages; no bid is placed once the table holds N rows
Step(p, U, T, L, B, S, A, N, P) ==
    \/ \E u \in T, l \in L, a \in A : Room(N) /\ PlaceBidCheck(p, u, l, a)
    \/ PlaceBidInsert(p)
    \/ PlaceBidCommit(p)
    \/ \E u \in U, b \in B : AcceptBidSelect(p, u, b)
    \/ AcceptBidUpdBid(p)
    \/ AcceptBidUpdOthers(p)
    \/ AcceptBidUpdLoad(p)
    \/ AcceptBidCommit(p)
    \/ \E u \in U, b \in B : RejectBidSelect(p, u, b)
    \/ RejectBidUpd(p)
    \/ RejectBidCommit(p)
    \/ \E u \in U, l \in L, s \in S : UpdateStatusSelect(p, u, l, s)
    \/ UpdateStatusUpd(p)
    \/ UpdateStatusCommit(p)
    \/ \E u \in P, titled \in BOOLEAN : LoadRoom /\ NewLoadCheck(p, u, titled)
    \/ NewLoadInsert(p)
    \/ NewLoadCommit(p)
    \/ \E u \in P, form \in MessageForms : SendMessageCheck(p, u, form)
    \/ SendMessageInsert(p)
    \/ SendMessageCommit(p)
    \/ \E u \in T, l \in L : SaveLoadCheck(p, u, l)
    \/ SaveLoadInsert(p)
    \/ SaveLoadCommit(p)
    \/ \E form \in RegisterForms : RegisterCheck(p, form)
    \/ \E refused \in BOOLEAN : RegisterInsert(p, refused)
    \/ RegisterCommit(p)
    \/ Return(p)

\* requests served one at a time
Next ==
    Step(1, Principals, Principals, LoadArgs, BidArgs, StatusArgs, AmountArgs, MaxBids,
         Posters)

Spec == Init /\ [][Next]_vars

\* the inputs of concurrent requests: the shipper of load 1 manages, two truckers
\* bid, all on load 1
ConcManagers == {2}

ConcBidders == {4, 5}

ConcLoadArgs == Ids({1})

ConcBidArgs == Ids(1..MaxConcBids)

ConcStatusArgs == {"cancelled"}

ConcAmountArgs == {Field(<<"5","0","0">>)}

\* the handlers of two concurrent requests, interleaved statement by statement
NextConc ==
    \E p \in Handlers :
        \/ Step(p, ConcManagers, ConcBidders, ConcLoadArgs, ConcBidArgs,
                ConcStatusArgs, ConcAmountArgs, MaxConcBids, ConcManagers)
        \/ BusyTimeout(p)

SpecConc == Init /\ [][NextConc]_vars

----------------------------------------------------------------------------
\* Vocabulary of the claims

\* The id of a request bound: its record holds the row id.
BindsBid(r) == "bid_id" \in DOMAIN r

BindsLoad(r) == "load_id" \in DOMAIN r

\* A request names no bid, or no load, of the committed tables: its id did not
\* bind, or it stands for no row.
NamesNoBid(r) == ~BindsBid(r) \/ r.bid_id \notin DOMAIN bids

NamesNoLoad(r) == ~BindsLoad(r) \/ r.load_id \notin DOMAIN loads

\* handler p has answered a request of kind op and not yet taken the next one
Answered(p, op) == pc[p] = "done" /\ req[p].op = op

\* the committed bids of load l
BidsOf(l) == {i \in DOMAIN bids : bids[i].load_id = l}

\* the committed bids of load l in status s
BidsIn(l, s) == {i \in BidsOf(l) : bids[i].status = s}

\* the other handler
Other(p) == CHOOSE q \in Handlers : q # p

----------------------------------------------------------------------------
\* C1: of two concurrent acceptBid calls by an authorized principal on distinct
\* pending bids of the same open load, exactly one succeeds and the other fails with
\* LoadNotOpen; afterwards the load is assigned to the winner's bidder and of its N
\* bids one is accepted and N-1 are rejected.  Two calls are concurrent when each
\* fetched its bid while the load was still open and the bid still pending; a call
\* that gave up waiting for the store's lock is left aside.
C1_OneConcurrentAcceptWins ==
    \A p \in Handlers :
        LET q == Other(p) IN
        ( /\ Answered(p, "accept_bid") /\ Answered(q, "accept_bid")
          /\ res[p] \notin {"NotFound", "Forbidden", "OperationalError"}
          /\ res[q] \notin {"NotFound", "Forbidden", "OperationalError"}
          /\ req[p].load_id = req[q].load_id
          /\ req[p].bid_id # req[q].bid_id
          /\ req[p].load_status0 = "open" /\ req[q].load_status0 = "open"
          /\ req[p].bid_status0 = "pending" /\ req[q].bid_status0 = "pending" )
        => \E w \in {p, q} :
              LET l == req[w].load_id IN
              /\ res[w] = "ok"
              /\ res[Other(w)] = "LoadNotOpen"
              /\ loads[l].status = "assigned"
              /\ loads[l].trucker_id = req[w].trucker_id
              /\ Cardinality(BidsIn(l, "accepted")) = 1
              /\ Cardinality(BidsIn(l, "rejected")) = Cardinality(BidsOf(l)) - 1

\* C2: acceptBid by an authorized principal on a bid whose load is not open fails
\* with LoadNotOpen (and changes nothing).
C2_AcceptOnClosedLoadFails ==
    \A p \in Handlers :
        ( /\ Answered(p, "accept_bid")
          /\ res[p] \notin {"NotFound", "OverflowError", "Forbidden"}
          /\ req[p].load_status0 # "open" )
        => res[p] = "LoadNotOpen"

\* C3: in every state a load has an assigned bidder exactly when its status is
\* assigned, in_transit or delivered.
C3_AssigneeIffAssigned ==
    \A l \in DOMAIN loads :
        loads[l].trucker_id # NULL
            <=> loads[l].status \in {"assigned", "in_transit", "delivered"}

\* C4: in every state, under every interleaving of concurrent submitBid calls, a
\* (load, bidder) pair has at most one pending bid.
C4_OnePendingPerPair ==
    \A i, j \in DOMAIN bids :
        ( /\ i # j
          /\ bids[i].load_id = bids[j].load_id
          /\ bids[i].trucker_id = bids[j].trucker_id
          /\ bids[i].status = "pending" )
        => bids[j].status # "pending"

\* C5: in every state a load has at most one accepted bid, and the bidder of that
\* bid is the load's assigned bidder.
C5_OneAcceptedMatchesAssignee ==
    \A l \in DOMAIN loads :
        /\ Cardinality(BidsIn(l, "accepted")) <= 1
        /\ \A i \in BidsIn(l, "accepted") : bids[i].trucker_id = loads[l].trucker_id

\* C5's case: a second acceptBid on a load that was already assigned has been
\* committed, and the load holds the bid accepted before it
C5_ReacceptCommitted ==
    \E p \in Handlers :
        /\ Answered(p, "accept_bid")
        /\ res[p] = "ok"
        /\ req[p].load_status0 = "assigned"
        /\ req[p].bid_status0 = "rejected"
        /\ bids[req[p].bid_id].status = "accepted"
        /\ BidsIn(req[p].load_id, "rejected") # {}

\* the statements of accept_bid from its first UPDATE to its commit
Accepting == {"accept_upd_bid", "accept_upd_others", "accept_upd_load", "accept_commit"}

\* C6: nobody reading the store sees part of an acceptBid.  A step of a handler
\* inside accept_bid either leaves the committed tables as they are, or is its commit
\* and shows all three effects at once; and whenever a bid turns accepted in the
\* committed tables, the same step shows its load assigned to its bidder and every
\* other bid of the load rejected.
C6_AcceptIsAtomic ==
    [][ /\ \A p \in Handlers :
              (pc[p] \in Accepting /\ pc'[p] # pc[p])
              => \/ loads' = loads /\ bids' = bids
                 \/ /\ pc[p] = "accept_commit"
                    /\ bids'[req[p].bid_id].status = "accepted"
                    /\ loads'[req[p].load_id].status = "assigned"
                    /\ loads'[req[p].load_id].trucker_id = req[p].trucker_id
                    /\ \A j \in DOMAIN bids' :
                          (bids'[j].load_id = req[p].load_id /\ j # req[p].bid_id)
                          => bids'[j].status = "rejected"
        /\ \A i \in DOMAIN bids :
              (bids[i].status # "accepted" /\ bids'[i].status = "accepted")
              => /\ loads'[bids[i].load_id].status = "assigned"
                 /\ loads'[bids[i].load_id].trucker_id = bids[i].trucker_id
                 /\ \A j \in DOMAIN bids' :
                       (bids'[j].load_id = bids[i].load_id /\ j # i)
                       => bids'[j].status = "rejected"
      ]_vars

\* C6's case: a handler has written the accepted bid and the rejected siblings
\* inside its transaction, while the committed tables, which the other handler
\* reads, still show the bid pending, a sibling pending and the load open
C6_AcceptHalfWritten ==
    \E p \in Handlers :
        /\ pc[p] = "accept_upd_load"
        /\ tx.bids[req[p].bid_id].status = "accepted"
        /\ bids[req[p].bid_id].status = "pending"
        /\ loads[req[p].load_id].status = "open"
        /\ \E j \in BidsOf(req[p].load_id) :
              /\ j # req[p].bid_id
              /\ bids[j].status = "pending"
              /\ tx.bids[j].status = "rejected"
        /\ pc[Other(p)] = "idle"

\* C7: a transitionLoad call on a delivered or cancelled load fails with
\* IllegalTransition whatever the target status.
C7_TerminalLoadRefusesTransition ==
    \A p \in Handlers :
        ( /\ Answered(p, "update_status")
          /\ res[p] \notin {"BadRequest", "NotFound", "OverflowError", "Forbidden"}
          /\ req[p].load_status0 \in {"delivered", "cancelled"} )
        => res[p] = "IllegalTransition"

\* C8: on a load that is not delivered or cancelled, transitionLoad succeeds only
\* along assigned->in_transit, in_transit->delivered and {open, assigned,
\* in_transit}->cancelled; any other target fails with IllegalTransition and leaves
\* the load's status as it was.
C8_OnlyAllowedEdges ==
    \A p \in Handlers :
        LET edges == {<<"assigned", "in_transit">>, <<"in_transit", "delivered">>,
                      <<"open", "cancelled">>, <<"assigned", "cancelled">>,
                      <<"in_transit", "cancelled">>}
        IN  ( /\ Answered(p, "update_status")
              /\ res[p] \notin {"BadRequest", "NotFound", "OverflowError", "Forbidden"}
              /\ req[p].load_status0 \in {"open", "assigned", "in_transit"}
              /\ <<req[p].load_status0, req[p].status>> \notin edges )
            => /\ res[p] = "IllegalTransition"
               /\ loads[req[p].load_id].status = req[p].load_status0

\* C9: submitBid on a load that does not exist or is not open fails with
\* LoadNotOpen or NotFound (and adds no bid).
C9_BidOnlyOnOpenLoad ==
    \A p \in Handlers :
        ( /\ Answered(p, "place_bid")
          /\ res[p] \notin {"Forbidden", "InvalidAmount", "OverflowError"}
          /\ req[p].load_status0 # "open" )
        => res[p] \in {"LoadNotOpen", "NotFound"}

\* C10: acceptBid, rejectBid and transitionLoad (with a target among the five
\* statuses) on a bid or load that resolves: a principal who is neither the load's
\* poster nor an admin is answered Forbidden and no Load or Bid record changes; the
\* load's poster and an admin pass the check and go on to the first write.
C10_OnlyPosterOrAdminManages ==
    [][ \A p \in Handlers :
            ( /\ pc[p] = "idle" /\ pc'[p] # "idle"
              /\ req'[p].op \in {"accept_bid", "reject_bid", "update_status"}
              /\ res'[p] \notin {"BadRequest", "NotFound", "OverflowError"} )
            => LET r == req'[p]
                   poster == loads[r.load_id].shipper_id
               IN  IF r.user = poster \/ users[r.user] = "admin"
                   THEN pc'[p] \in {"accept_upd_bid", "reject_upd", "status_upd"}
                   ELSE /\ pc'[p] = "done"
                        /\ res'[p] = "Forbidden"
                        /\ loads' = loads /\ bids' = bids /\ tx' = tx
      ]_vars

\* C10's case: the shipper of another load has asked to accept a bid on load 1 and
\* was answered Forbidden
C10_OtherShipperRefused ==
    \E p \in Handlers :
        /\ Answered(p, "accept_bid")
        /\ res[p] = "Forbidden"
        /\ users[req[p].user] = "shipper"
        /\ req[p].user # loads[req[p].load_id].shipper_id
        /\ bids[req[p].bid_id].status = "pending"

\* C11: a successful acceptBid on bid B of load L leaves B accepted, every other
\* bid of L rejected whatever it was before, L assigned and L's assigned bidder
\* equal to B's bidder; the commit of accept_bid is answered with success.
C11_AcceptPostcondition ==
    [][ \A p \in Handlers :
            (pc[p] = "accept_commit" /\ pc'[p] = "done")
            => LET b == req[p].bid_id
                   l == bids[b].load_id
               IN  /\ res'[p] = "ok"
                   /\ bids'[b].status = "accepted"
                   /\ \A j \in DOMAIN bids' :
                         (j # b /\ bids'[j].load_id = l) => bids'[j].status = "rejected"
                   /\ loads'[l].status = "assigned"
                   /\ loads'[l].trucker_id = bids'[b].trucker_id
                   /\ loads'[l].trucker_id # NULL
      ]_vars

\* C11's case: accept_bid is about to commit on a rejected bid of a load whose
\* other bids are one accepted, by another bidder, and one pending
C11_SiblingsOfEveryStatus ==
    \E p \in Handlers :
        /\ pc[p] = "accept_commit"
        /\ bids[req[p].bid_id].status = "rejected"
        /\ \E i, j \in BidsOf(req[p].load_id) \ {req[p].bid_id} :
              /\ bids[i].status = "accepted"
              /\ bids[i].trucker_id # req[p].trucker_id
              /\ bids[j].status = "pending"

\* C12: submitBid with an amount that is zero, negative or not a number fails with
\* InvalidAmount (and adds no record).
C12_BadAmountIsInvalidAmount ==
    \A p \in Handlers :
        ( /\ Answered(p, "place_bid")
          /\ res[p] # "Forbidden"
          /\ \/ req[p].amount.none
             \/ req[p].amount.nan
             \/ PyLeqZero(req[p].amount) )
        => res[p] = "InvalidAmount"

\* C13: with requests served one at a time, submitBid by a bidder who has a pending
\* bid on the load is answered DuplicatePendingBid and adds no record; a submitBid
\* that succeeds adds exactly one row, pending, of the submitting principal on the
\* requested load, and changes no other row.
C13_DuplicateRefusedElseOnePending ==
    [][ \A p \in Handlers :
            /\ ( /\ pc[p] = "idle" /\ pc'[p] # "idle"
                 /\ req'[p].op = "place_bid"
                 /\ res'[p] \notin {"Forbidden", "InvalidAmount"}
                 /\ BindsLoad(req'[p])
                 /\ \E i \in DOMAIN bids :
                       /\ bids[i].load_id = req'[p].load_id
                       /\ bids[i].trucker_id = req'[p].user
                       /\ bids[i].status = "pending" )
               => /\ pc'[p] = "done"
                  /\ res'[p] = "DuplicatePendingBid"
                  /\ bids' = bids /\ loads' = loads /\ tx' = tx
            /\ (pc[p] = "bid_commit" /\ pc'[p] = "done")
               => /\ res'[p] = "ok"
                  /\ Len(bids') = Len(bids) + 1
                  /\ SubSeq(bids', 1, Len(bids)) = bids
                  /\ bids'[Len(bids')].status = "pending"
                  /\ bids'[Len(bids')].trucker_id = req[p].user
                  /\ bids'[Len(bids')].load_id = req[p].load_id
                  /\ loads' = loads
      ]_vars

\* C13's case: a trucker whose bid on the load is still pending, next to another
\* bidder's bid, asked again and was answered DuplicatePendingBid
C13_SecondBidRefused ==
    \E p \in Handlers :
        /\ Answered(p, "place_bid")
        /\ res[p] = "DuplicatePendingBid"
        /\ \E i, j \in BidsOf(req[p].load_id) :
              /\ bids[i].trucker_id = req[p].user
              /\ bids[i].status = "pending"
              /\ bids[j].trucker_id # req[p].user

\* C14: a successful rejectBid on bid B sets B rejected and changes nothing else:
\* no load, and no field of any other bid.
C14_RejectTouchesOneBid ==
    [][ \A p \in Handlers :
            (pc[p] = "reject_commit" /\ pc'[p] = "done")
            => /\ res'[p] = "ok"
               /\ bids' = [bids EXCEPT ![req[p].bid_id].status = "rejected"]
               /\ loads' = loads
      ]_vars

\* C14's case: reject_bid is about to commit while the load has another bid still
\* pending and another one accepted
C14_RejectNextToOthers ==
    \E p \in Handlers :
        /\ pc[p] = "reject_commit"
        /\ bids[req[p].bid_id].status = "pending"
        /\ \E i, j \in BidsOf(req[p].load_id) \ {req[p].bid_id} :
              /\ bids[i].status = "pending"
              /\ bids[j].status = "accepted"

\* the worked example of the specification: one load, its poster, two bidders
\* offering 500 and 450, requests served one at a time
MaxScenarioBids == 2
ScenarioPoster == {2}
ScenarioBidders == {4, 5}
ScenarioLoadArgs == Ids({1})
ScenarioBidArgs == Ids(1..MaxScenarioBids)
ScenarioStatusArgs == {"cancelled"}
ScenarioAmountArgs == {Field(<<"5","0","0">>), Field(<<"4","5","0">>)}

NextScenario ==
    Step(1, ScenarioPoster, ScenarioBidders, ScenarioLoadArgs, ScenarioBidArgs,
         ScenarioStatusArgs, ScenarioAmountArgs, MaxScenarioBids, ScenarioPoster)

SpecScenario == Init /\ [][NextScenario]_vars

\* row i of bids is a bid on load 1 by trucker t of amount a in status s
ScenarioBid(table, i, t, a, s) ==
    /\ i \in DOMAIN table
    /\ table[i].load_id = 1
    /\ table[i].trucker_id = t
    /\ table[i].amount = PyFloat(a)
    /\ table[i].status = s

\* bidder 4 and bidder 5 hold pending bids 1 (500) and 2 (450) on the open load 1
ScenarioBothPending ==
    /\ Len(bids) = 2
    /\ ScenarioBid(bids, 1, 4, 500, "pending")
    /\ ScenarioBid(bids, 2, 5, 450, "pending")
    /\ loads[1].status = "open"

\* bid 1 was accepted: load 1 assigned to bidder 4, bid 2 rejected
ScenarioResolved ==
    /\ Len(bids) = 2
    /\ ScenarioBid(bids, 1, 4, 500, "accepted")
    /\ ScenarioBid(bids, 2, 5, 450, "rejected")
    /\ loads[1].status = "assigned"
    /\ loads[1].trucker_id = 4

\* steps 1 to 4 of the example: A's bid of 500 is stored pending; A's second bid
\* is refused as a duplicate; B's bid of 450 is stored pending; accepting bid 1
\* assigns the load to A, accepts bid 1 and rejects bid 2
ScenarioUpToAccept ==
    /\ (pc[1] = "bid_commit" /\ pc'[1] = "done" /\ bids = <<>>
        /\ req[1].user = 4 /\ req[1].amount = PyFloat(500))
       => (res'[1] = "ok" /\ Len(bids') = 1 /\ ScenarioBid(bids', 1, 4, 500, "pending"))
    /\ (pc[1] = "idle" /\ pc'[1] # "idle" /\ req'[1].op = "place_bid"
        /\ req'[1].user = 4 /\ Len(bids) = 1 /\ ScenarioBid(bids, 1, 4, 500, "pending"))
       => (pc'[1] = "done" /\ res'[1] = "DuplicatePendingBid" /\ bids' = bids)
    /\ (pc[1] = "bid_commit" /\ pc'[1] = "done"
        /\ Len(bids) = 1 /\ ScenarioBid(bids, 1, 4, 500, "pending")
        /\ req[1].user = 5 /\ req[1].amount = PyFloat(450))
       => (res'[1] = "ok" /\ Len(bids') = 2 /\ ScenarioBid(bids', 1, 4, 500, "pending")
           /\ ScenarioBid(bids', 2, 5, 450, "pending"))
    /\ (pc[1] = "accept_commit" /\ pc'[1] = "done" /\ req[1].bid_id = 1
        /\ ScenarioBothPending)
       => (res'[1] = "ok" /\ ScenarioResolved')

\* step 5 of the example: accepting bid 2 after bid 1 was accepted is refused with
\* LoadNotOpen and changes nothing
ScenarioSecondAcceptRefused ==
    (pc[1] = "idle" /\ pc'[1] # "idle" /\ req'[1].op = "accept_bid"
     /\ req'[1].user = 2 /\ req'[1].bid_id = 2 /\ ScenarioResolved)
    => (pc'[1] = "done" /\ res'[1] = "LoadNotOpen"
        /\ loads' = loads /\ bids' = bids /\ tx' = tx)

\* C15: on an open load, A bids 500 (bid 1, pending), A's second bid is refused as
\* a duplicate, B bids 450 (bid 2, pending), the poster accepts bid 1 (load
\* assigned to A, bid 1 accepted, bid 2 rejected), and the poster's acceptBid on
\* bid 2 then fails with LoadNotOpen leaving the state unchanged.
C15_WorkedExample ==
    [][ScenarioUpToAccept /\ ScenarioSecondAcceptRefused]_vars

\* C16: every stored bid refers to an existing load and to an existing user.
C16_BidsReferToLoadsAndUsers ==
    \A i \in DOMAIN bids :
        /\ bids[i].load_id \in DOMAIN loads
        /\ bids[i].trucker_id \in DOMAIN users

\* C17: acceptBid and rejectBid on a bid id that does not exist, and transitionLoad
\* (with a target among the five statuses) on a load id that does not exist, fail
\* with NotFound and change nothing.
C17_UnknownIdIsNotFound ==
    [][ \A p \in Handlers :
            ( /\ pc[p] = "idle" /\ pc'[p] # "idle"
              /\ \/ /\ req'[p].op \in {"accept_bid", "reject_bid"}
                    /\ NamesNoBid(req'[p])
                 \/ /\ req'[p].op = "update_status"
                    /\ req'[p].status \in LoadStatuses
                    /\ NamesNoLoad(req'[p]) )
            => /\ pc'[p] = "done"
               /\ res'[p] = "NotFound"
               /\ loads' = loads /\ bids' = bids /\ tx' = tx
      ]_vars

\* C18: every acceptBid and submitBid that contends with another request returns
\* with success or with a typed failure, never with an untyped storage fault.
C18_ContendingCallsAreTyped ==
    \A p \in Handlers :
        (Answered(p, "accept_bid") \/ Answered(p, "place_bid"))
        => res[p] \in {"ok", "LoadNotOpen", "DuplicatePendingBid", "Conflict",
                       "InvalidAmount", "NotFound", "Forbidden"}

\* view_load (listBids), lines 480-487: 404 for a missing load; for a load that
\* exists the shipper query of line 483 passes the integer l["shipper_id"] where
\* sqlite3 wants a sequence of parameters (the comma stands after the
\* parenthesis), so execute() raises ProgrammingError and the bids query of lines
\* 486-487 is not reached
ViewLoadSelect(p, load_id) ==
    /\ pc[p] = "idle"
    /\ LET r == [op |-> "view_load", load_id |-> RowId(load_id)]
       IN  IF TooLarge(load_id)
           THEN Finish(p, [op |-> "view_load"], "OverflowError")
           ELSE IF RowId(load_id) \notin DOMAIN loads
           THEN Finish(p, r, "NotFound")
           ELSE Finish(p, r, "ProgrammingError")
    /\ UNCHANGED <<loads, bids, tx>>

\* the worked example's requests together with the page of a load
ListLoadArgs == Ids({1, NoLoad}) \cup {TooLargeId}

NextList ==
    \/ NextScenario
    \/ \E l \in ListLoadArgs : ViewLoadSelect(1, l)

SpecList == Init /\ [][NextList]_vars

\* rows lists exactly the bids of load l, each once, the most recently created
\* (the highest id) first
NewestFirst(rows, l) ==
    /\ {rows[k] : k \in DOMAIN rows} = BidsOf(l)
    /\ Len(rows) = Cardinality(BidsOf(l))
    /\ \A j, k \in DOMAIN rows : j < k => rows[j] > rows[k]

\* C19: listBids on a load returns exactly the bids of that load, each once, from
\* the most recently created to the least recently created.
C19_ListIsLoadsBidsNewestFirst ==
    \A p \in Handlers :
        (Answered(p, "view_load") /\ req[p].load_id \in DOMAIN loads)
        => /\ res[p] = "ok"
           /\ NewestFirst(req[p].rows, req[p].load_id)

\* C20: once a load has an assigned bidder, no later operation changes or resets
\* it: a load is resolved at most once.
C20_AssigneeNeverChanges ==
    [][ \A l \in DOMAIN loads :
            loads[l].trucker_id # NULL => loads'[l].trucker_id = loads[l].trucker_id
      ]_vars

\* a step in which handler p leaves pc label at with its answer
Leaves(p, at) == pc[p] = at /\ pc'[p] = "done"

\* C21: a bid's status is changed only by accept_bid and reject_bid, and a load's
\* assigned bidder only by accept_bid; place_bid and update_status leave both as
\* they were, and no step changes the load, bidder or amount of a stored bid.
C21_OnlyResolutionWritesStatusAndAssignee ==
    [][ /\ \A i \in DOMAIN bids :
              /\ i \in DOMAIN bids'
              /\ bids'[i].load_id = bids[i].load_id
              /\ bids'[i].trucker_id = bids[i].trucker_id
              /\ bids'[i].amount = bids[i].amount
              /\ bids'[i].status # bids[i].status
                 => \E p \in Handlers : Leaves(p, "accept_commit") \/ Leaves(p, "reject_commit")
        /\ \A l \in DOMAIN loads :
              loads'[l].trucker_id # loads[l].trucker_id
              => \E p \in Handlers : Leaves(p, "accept_commit")
        /\ \A p \in Handlers :
              (Leaves(p, "bid_commit") \/ Leaves(p, "status_commit"))
              => /\ \A i \in DOMAIN bids : bids'[i].status = bids[i].status
                 /\ \A l \in DOMAIN loads : loads'[l].trucker_id = loads[l].trucker_id
      ]_vars

\* C21's case: update_status is about to commit 'open' on a load that has an
\* assigned bidder and an accepted bid
C21_ReopenOfAssignedLoad ==
    \E p \in Handlers :
        /\ pc[p] = "status_commit"
        /\ req[p].status = "open"
        /\ loads[req[p].load_id].trucker_id # NULL
        /\ BidsIn(req[p].load_id, "accepted") # {}

\* C22: a load whose status is assigned, in_transit or delivered has exactly one
\* accepted bid, and that bid is the one of its assigned bidder.
C22_ResolvedLoadHasItsAcceptedBid ==
    \A l \in DOMAIN loads :
        loads[l].status \in {"assigned", "in_transit", "delivered"}
        => /\ Cardinality(BidsIn(l, "accepted")) = 1
           /\ \A i \in BidsIn(l, "accepted") : bids[i].trucker_id = loads[l].trucker_id

\* C23: a load whose status is assigned, in_transit or delivered has no pending
\* bid.
C23_ResolvedLoadHasNoPendingBid ==
    \A l \in DOMAIN loads :
        loads[l].status \in {"assigned", "in_transit", "delivered"}
        => BidsIn(l, "pending") = {}

\* C24: a successful update_status changes only the status field of its load: the
\* load's assigned bidder, every other load and every bid stay as they were, so
\* the pending bids of a cancelled load stay pending.
C24_TransitionWritesStatusOnly ==
    [][ \A p \in Handlers :
            Leaves(p, "status_commit")
            => /\ res'[p] = "ok"
               /\ loads' = [loads EXCEPT ![req[p].load_id].status = req[p].status]
               /\ bids' = bids
      ]_vars

\* C24's case: 'cancelled' is about to be committed on a load that has an
\* assigned bidder and a pending bid, while another load exists
C24_CancelWithPendingBid ==
    \E p \in Handlers :
        /\ pc[p] = "status_commit"
        /\ req[p].status = "cancelled"
        /\ loads[req[p].load_id].status # "cancelled"
        /\ loads[req[p].load_id].trucker_id # NULL
        /\ BidsIn(req[p].load_id, "pending") # {}
        /\ DOMAIN loads # {req[p].load_id}

\* C25: accept_bid does not ask for a pending bid: on an open load, accept_bid by
\* the load's shipper or the admin on a rejected bid goes on to its writes, and
\* its commit answers success with the bid accepted and the load assigned to the
\* bid's trucker.
C25_RejectedBidCanBeAccepted ==
    [][ \A p \in Handlers :
            /\ ( /\ pc[p] = "idle" /\ pc'[p] # "idle"
                 /\ req'[p].op = "accept_bid"
                 /\ ~NamesNoBid(req'[p])
                 /\ bids[req'[p].bid_id].status = "rejected"
                 /\ StatusOf(bids[req'[p].bid_id].load_id) = "open"
                 /\ MayManage(req'[p].user, loads[bids[req'[p].bid_id].load_id].shipper_id) )
               => pc'[p] = "accept_upd_bid"
            /\ ( /\ Leaves(p, "accept_commit")
                 /\ bids[req[p].bid_id].status = "rejected"
                 /\ loads[req[p].load_id].status = "open" )
               => /\ res'[p] = "ok"
                  /\ bids'[req[p].bid_id].status = "accepted"
                  /\ loads'[req[p].load_id].status = "assigned"
                  /\ loads'[req[p].load_id].trucker_id = bids[req[p].bid_id].trucker_id
      ]_vars

\* C25's case: accept_bid answered success for a bid that was rejected on a load
\* that was open when the request arrived
C25_RejectedThenAccepted ==
    \E p \in Handlers :
        /\ Answered(p, "accept_bid")
        /\ res[p] = "ok"
        /\ req[p].bid_status0 = "rejected"
        /\ req[p].load_status0 = "open"
        /\ bids[req[p].bid_id].status = "accepted"
        /\ loads[req[p].load_id].trucker_id = bids[req[p].bid_id].trucker_id

\* C26: a bid that is accepted or rejected never becomes pending again.
C26_NeverPendingAgain ==
    [][ \A i \in DOMAIN bids :
            bids[i].status # "pending" => bids'[i].status # "pending"
      ]_vars

\* C26's case: reject_bid is about to commit on an accepted bid
C26_AcceptedBidRejected ==
    \E p \in Handlers :
        /\ pc[p] = "reject_commit"
        /\ bids[req[p].bid_id].status = "accepted"
        /\ tx.bids[req[p].bid_id].status = "rejected"

\* two loads and one trucker bidding on both, requests served one at a time:
\* load 1, and load 3, which is posted by shipper 2 or 3 during the run, before or
\* after the first bid that names it
MaxTwoLoadBids == 3
TwoLoadManagers == {2, 3}
TwoLoadBidders == {4}
TwoLoadArgs == Ids({1, 3})
TwoLoadBidArgs == Ids(1..MaxTwoLoadBids)
TwoLoadStatusArgs == {"in_transit"}
TwoLoadAmountArgs == {Field(<<"5","0","0">>), Field(<<"i","n","f">>)}

NextTwoLoads ==
    Step(1, TwoLoadManagers, TwoLoadBidders, TwoLoadArgs, TwoLoadBidArgs,
         TwoLoadStatusArgs, TwoLoadAmountArgs, MaxTwoLoadBids, TwoLoadManagers)

SpecTwoLoads == Init /\ [][NextTwoLoads]_vars

\* C27: accept_bid on a bid of load L changes only L and the bids of L: every
\* other load, and every bid of every other load, is as it was.
C27_AcceptTouchesOneLoad ==
    [][ \A p \in Handlers :
            Leaves(p, "accept_commit")
            => /\ \A l \in DOMAIN loads \ {req[p].load_id} : loads'[l] = loads[l]
               /\ DOMAIN bids' = DOMAIN bids
               /\ \A i \in DOMAIN bids :
                     bids[i].load_id # req[p].load_id => bids'[i] = bids[i]
      ]_vars

\* C27's case: accept_bid is about to commit on load L while another load is
\* assigned and has an accepted and a pending bid
C27_AcceptNextToBusyLoad ==
    \E p \in Handlers :
        /\ pc[p] = "accept_commit"
        /\ \E l \in DOMAIN loads \ {req[p].load_id} :
              /\ loads[l].status = "assigned"
              /\ loads[l].trucker_id # NULL
              /\ BidsIn(l, "accepted") # {}
              /\ BidsIn(l, "pending") # {}

====
